---- MODULE Spec2Model ----
(***************************************************************************)
(* Model of the attach-policy custom-resource handler (lambda handler of   *)
(* the Organizations policy attachment) and of the construct wrappers      *)
(* Policy and MacieMembers of the landing zone accelerator.                *)
(*                                                                         *)
(* The handler is an async function: it suspends at every awaited call     *)
(* (one ListPoliciesForTarget request per page, AttachPolicy,              *)
(* DetachPolicy).  Each action below is one such step of one invocation.   *)
(* The Organizations service is the external state: per target, the       *)
(* ordered list of the policies attached to it.                            *)
(***************************************************************************)
EXTENDS Naturals, Sequences, FiniteSets, TLC

\* ------------------------------------------------------------------ bounds
\* Policies the service returns per ListPoliciesForTarget page.
PageSize == 1
\* Attachments of an initial external state, over all targets.
MaxAttached == 2
\* Rate-limit errors the service answers with during one invocation.
MaxThrottle == 1

\* --------------------------------------------------------------- universe
FullAWSAccess == "p-FullAWSAccess"
Policies == {FullAWSAccess, "p-1234", "p-5678", "p-tag1"}
Targets == {"ou-5678", "r-root"}
RequestTypes == {"Create", "Update", "Delete"}
\* Handler invocations of one run, in the order the deployment engine
\* issues them.
Invs == {1, 2}

\* The type the Organizations service records for a policy.
PolicyTypeOf(p) == IF p = "p-tag1" THEN "TAG_POLICY" ELSE "SERVICE_CONTROL_POLICY"

NoPhysicalId == "undefined"
LegacyPhysicalId == "legacy-physical-id"

\* `${policyId}_${targetId}`
PhysicalIdSwapped(p, t) == t \o "_" \o p

PhysicalIdOf(p, t) == p \o "_" \o t

\* The lifecycle events the deployment engine sends.  A Create event has no
\* PhysicalResourceId; Update and Delete carry the one recorded for the
\* resource (the one Create returned, or one recorded by an earlier
\* version).  The type property is the type of the policy, as the caller
\* passes it.
PhysicalIdsFor(r, p, t) ==
  IF r = "Create" THEN {NoPhysicalId}
  ELSE IF r = "Update" THEN {PhysicalIdOf(p, t)}
  ELSE {PhysicalIdOf(p, t), LegacyPhysicalId}

Events ==
  UNION {{[RequestType |-> x[1], policyId |-> x[2], targetId |-> x[3],
           type |-> PolicyTypeOf(x[2]), PhysicalResourceId |-> ph] :
             ph \in PhysicalIdsFor(x[1], x[2], x[3])} :
           x \in RequestTypes \X Policies \X Targets}

NoEvent ==
  [RequestType |-> "None", policyId |-> "", targetId |-> "", type |-> "",
   PhysicalResourceId |-> NoPhysicalId]

\* What organizationsClient.send (or the paginator) gives back for one
\* request: the response, a rate-limit error or another service error.
Responses == {"ok", "Throttling", "ServiceError"}

\* ------------------------------------------------------------------ state
VARIABLES
  attached,   \* Organizations: target -> the policies attached to it, in listing order
  ev,         \* invocation -> its event
  pc,         \* invocation -> where the handler is suspended
  cursor,     \* invocation -> NextToken of the paginator: policies already listed
  more,       \* invocation -> the last page response carried a NextToken
  page,       \* invocation -> page.Policies of the last page response
  scan,       \* invocation -> position of the inner for loop in the page
  retries,    \* invocation -> rate-limit errors absorbed by the back-off wrapper
  result,     \* invocation -> what the handler returned (or that it threw)
  calls,      \* invocation -> the external calls completed so far, in order
  before      \* invocation -> attached when the invocation started

hvars == <<attached, ev, pc, cursor, more, page, scan, retries, result, calls, before>>

VARIABLES
  uuids,      \* uuids generated so far
  synth,      \* construct -> the properties of the last synthesis (a set of at most one)
  deployed,   \* construct -> the properties of the last deployment (a set of at most one)
  pending,    \* construct -> the last synthesis was not deployed yet
  request,    \* construct -> what the last deployment sent to the handler
  deploys,    \* construct -> deployments so far
  built       \* the constructions so far: construct, props, uuid, properties

cvars == <<uuids, synth, deployed, pending, request, deploys, built>>

\* ---------------------------------------------------------------- helpers
Min(a, b) == IF a <= b THEN a ELSE b

Contains(s, p) == \E k \in 1..Len(s) : s[k] = p

Remove(s, p) == SelectSeq(s, LAMBDA q : q # p)

\* Sequences over S without repetition, of length at most n.
RECURSIVE DistinctSeqs(_, _)
DistinctSeqs(S, n) ==
  IF n = 0 THEN {<<>>}
  ELSE LET shorter == DistinctSeqs(S, n - 1)
       IN shorter \cup {Append(x[1], x[2]) :
                          x \in {y \in shorter \X S : ~Contains(y[1], y[2])}}

\* The number of attachments of an external state.
RECURSIVE SumLen(_, _)
SumLen(a, ts) ==
  IF ts = {} THEN 0
  ELSE LET t == CHOOSE x \in ts : TRUE IN Len(a[t]) + SumLen(a, ts \ {t})

Attachments(a) == SumLen(a, DOMAIN a)

\* ListPoliciesForTarget({Filter, TargetId, NextToken}): the policies of the
\* given type attached to the target, one page of them.
FilteredPolicies(att, t, type) == SelectSeq(att[t], LAMBDA p : PolicyTypeOf(p) = type)

ListFirstPageOnly(att, t, type, from) ==
  LET all == FilteredPolicies(att, t, type)
      to == Min(from + PageSize, Len(all))
  IN [Policies |-> SubSeq(all, from + 1, to),
      NextToken |-> to,
      HasNextToken |-> FALSE]

ListPoliciesForTarget(att, t, type, from) ==
  LET all == FilteredPolicies(att, t, type)
      to == Min(from + PageSize, Len(all))
  IN [Policies |-> SubSeq(all, from + 1, to),
      NextToken |-> to,
      HasNextToken |-> to < Len(all)]

\* ------------------------------------------------- the back-off wrapper
\* throttlingBackOff(fn): re-issues the call when it failed with a
\* rate-limit error; any other answer is the wrapper's answer.
throttlingBackOff(r) == IF r = "Throttling" THEN "retry" ELSE r

\* ------------------------------------------------- how an invocation ends
Returned(physicalId, outcome) ==
  [Status |-> "SUCCESS", PhysicalResourceId |-> physicalId, outcome |-> outcome,
   error |-> "none"]

\* An error thrown by an awaited call is not caught: the handler rejects.
Thrown(error) ==
  [Status |-> "FAILED", PhysicalResourceId |-> NoPhysicalId, outcome |-> "Fail",
   error |-> error]

NoResult ==
  [Status |-> "PENDING", PhysicalResourceId |-> NoPhysicalId, outcome |-> "None",
   error |-> "none"]

\* The test of the inner loop of Create/Update (lines 51-52) over one page:
\* some policy of the page has the Id policyId.
PolicyNameOf(p) == "name-of-" \o p

PageHasPolicyByName(pg, policyId) == \E k \in 1..Len(pg) : PolicyNameOf(pg[k]) = policyId

PageHasPolicy(pg, policyId) == \E k \in 1..Len(pg) : pg[k] = policyId

\* The guard of Delete (line 85): the policy that is never detached.
IsProtectedByName(policyId) == policyId = "FullAWSAccess"

IsProtected(policyId) == policyId = FullAWSAccess

\* The PhysicalResourceId Delete returns (line 107): the event's.
DeletePhysicalIdComputed(e) == e.policyId \o "_" \o e.targetId

DeletePhysicalId(e) == e.PhysicalResourceId

\* The mutations (attach or detach) an invocation has applied so far.
Applied(cs) == Len(SelectSeq(cs, LAMBDA c : c \in {"attach:ok", "detach:ok"}))

\* ---------------------------------------------------------------- actions
HandlerInit ==
  /\ attached \in {a \in [Targets -> DistinctSeqs(Policies, MaxAttached)] :
                      Attachments(a) <= MaxAttached}
  /\ ev = [i \in Invs |-> NoEvent]
  /\ pc = [i \in Invs |-> "Idle"]
  /\ cursor = [i \in Invs |-> 0]
  /\ more = [i \in Invs |-> FALSE]
  /\ page = [i \in Invs |-> <<>>]
  /\ scan = [i \in Invs |-> 0]
  /\ retries = [i \in Invs |-> 0]
  /\ result = [i \in Invs |-> NoResult]
  /\ calls = [i \in Invs |-> <<>>]
  /\ before = [i \in Invs |-> attached]

\* The deployment engine invokes the handler (lines 28-41).  The invocations
\* of one run are those of one attachment resource, for one policy and one
\* target, and follow one another.
Invoke(i, e) ==
  /\ pc[i] = "Idle"
  /\ \A j \in Invs : j < i => /\ pc[j] = "Done"
                              /\ ev[j].policyId = e.policyId
                              /\ ev[j].targetId = e.targetId
  /\ ev' = [ev EXCEPT ![i] = e]
  /\ pc' = [pc EXCEPT ![i] = "Pending"]
  /\ before' = [before EXCEPT ![i] = attached]
  /\ UNCHANGED <<attached, cursor, more, page, scan, retries, result, calls>>
  /\ UNCHANGED cvars

\* Where Create/Update goes on from a page (lines 51-60): to the return of
\* lines 54-57 when the page has the policy, else to the next page request
\* when the response carried a NextToken, else to the attach of line 65.
CreateUpdateResumeNoReturn(e, pg, hasNext) ==
  [pc |-> IF hasNext THEN "ListMatch" ELSE "Attach", result |-> NoResult]

CreateUpdateResume(e, pg, hasNext) ==
  IF PageHasPolicy(pg, e.policyId)
  THEN [pc |-> "Done",
        result |-> Returned(PhysicalIdOf(e.policyId, e.targetId), "NoOpSuccess")]
  ELSE [pc |-> IF hasNext THEN "ListMatch" ELSE "Attach", result |-> NoResult]

\* Create/Update: one page request of the paginator and the scan of the page
\* (lines 47-60).  The request is sent by the paginator itself, so any error
\* it answers with is thrown out of the for-await loop.  calls records
\* whether the page read contained the policy.
CreateUpdateListPage(i, r) ==
  /\ pc[i] \in {"Pending", "ListMatch"}
  /\ ev[i].RequestType \in {"Create", "Update"}
  /\ LET e == ev[i]
         pg == ListPoliciesForTarget(attached, e.targetId, e.type, cursor[i])
         hit == Contains(pg.Policies, e.policyId)
         nxt == CreateUpdateResume(e, pg.Policies, pg.HasNextToken)
     IN IF r # "ok"
        THEN /\ pc' = [pc EXCEPT ![i] = "Done"]
             /\ result' = [result EXCEPT ![i] = Thrown(r)]
             /\ calls' = [calls EXCEPT ![i] = Append(@, "list:err")]
             /\ UNCHANGED <<cursor, more, page>>
        ELSE /\ pc' = [pc EXCEPT ![i] = nxt.pc]
             /\ result' = [result EXCEPT ![i] = nxt.result]
             /\ cursor' = [cursor EXCEPT ![i] = pg.NextToken]
             /\ more' = [more EXCEPT ![i] = pg.HasNextToken]
             /\ page' = [page EXCEPT ![i] = pg.Policies]
             /\ calls' = [calls EXCEPT ![i] =
                            Append(@, IF hit THEN "list:hit" ELSE "list:miss")]
  /\ UNCHANGED <<attached, ev, scan, retries, before>>
  /\ UNCHANGED cvars

\* Create/Update: throttlingBackOff(() => send(new AttachPolicyCommand))
\* and the return that follows it (lines 65-77).  The service rejects the
\* attachment of a policy that is attached to the target already.
CreateUpdateAttach(i, r) ==
  /\ pc[i] = "Attach"
  /\ LET e == ev[i]
         w == throttlingBackOff(r)
     IN IF w = "retry"
        THEN /\ retries[i] < MaxThrottle
             /\ retries' = [retries EXCEPT ![i] = @ + 1]
             /\ UNCHANGED <<attached, pc, result, calls>>
        ELSE IF w # "ok"
        THEN /\ pc' = [pc EXCEPT ![i] = "Done"]
             /\ result' = [result EXCEPT ![i] = Thrown(w)]
             /\ calls' = [calls EXCEPT ![i] = Append(@, "attach:err")]
             /\ UNCHANGED <<attached, retries>>
        ELSE IF Contains(attached[e.targetId], e.policyId)
        THEN /\ pc' = [pc EXCEPT ![i] = "Done"]
             /\ result' = [result EXCEPT ![i] = Thrown("DuplicatePolicyAttachment")]
             /\ calls' = [calls EXCEPT ![i] = Append(@, "attach:rejected")]
             /\ UNCHANGED <<attached, retries>>
        ELSE /\ attached' = [attached EXCEPT ![e.targetId] = Append(@, e.policyId)]
             /\ pc' = [pc EXCEPT ![i] = "Done"]
             /\ result' = [result EXCEPT ![i] =
                             Returned(PhysicalIdOf(e.policyId, e.targetId), "MutateSuccess")]
             /\ calls' = [calls EXCEPT ![i] = Append(@, "attach:ok")]
             /\ UNCHANGED retries
  /\ UNCHANGED <<ev, cursor, more, page, scan, before>>
  /\ UNCHANGED cvars

\* Delete of the protected policy: the guard of line 85 skips the listing,
\* and the handler returns the event's physical id (lines 106-109).
DeleteProtected(i) ==
  /\ pc[i] = "Pending"
  /\ ev[i].RequestType = "Delete"
  /\ IsProtected(ev[i].policyId)
  /\ pc' = [pc EXCEPT ![i] = "Done"]
  /\ result' = [result EXCEPT ![i] = Returned(DeletePhysicalId(ev[i]), "NoOpSuccess")]
  /\ UNCHANGED <<attached, ev, cursor, more, page, scan, retries, calls, before>>
  /\ UNCHANGED cvars

\* The inner for loop of Delete (lines 91-102) from position `from' of the
\* page: the position of the next policy whose Id is policyId, 0 when the
\* loop runs to the end of the page.
NextMatch(pg, from, p) ==
  LET hits == {k \in (from + 1)..Len(pg) : pg[k] = p}
  IN IF hits = {} THEN 0 ELSE CHOOSE k \in hits : \A h \in hits : k <= h

\* Where Delete goes on from position `from' of the page: to the detach of
\* the next match, else to the next page request when the response carried
\* a NextToken, else to the return of lines 106-109.
DeleteResume(e, pg, from, hasNext, cs) ==
  LET k == NextMatch(pg, from, e.policyId)
  IN IF k > 0 THEN [pc |-> "Detach", scan |-> k, result |-> NoResult]
     ELSE IF hasNext THEN [pc |-> "ListMatch", scan |-> Len(pg), result |-> NoResult]
     ELSE [pc |-> "Done", scan |-> Len(pg),
           result |-> Returned(DeletePhysicalId(e),
                               IF Applied(cs) > 0 THEN "MutateSuccess" ELSE "NoOpSuccess")]

\* Delete: one page request of the paginator (lines 87-90) and the scan of
\* the page up to its first match.  calls records whether the page read
\* contained the policy.
DeleteListPage(i, r) ==
  /\ pc[i] \in {"Pending", "ListMatch"}
  /\ ev[i].RequestType = "Delete"
  /\ ~IsProtected(ev[i].policyId)
  /\ LET e == ev[i]
         pg == ListPoliciesForTarget(attached, e.targetId, e.type, cursor[i])
         hit == Contains(pg.Policies, e.policyId)
         cs == Append(calls[i], IF hit THEN "list:hit" ELSE "list:miss")
         nxt == DeleteResume(e, pg.Policies, 0, pg.HasNextToken, cs)
     IN IF r # "ok"
        THEN /\ pc' = [pc EXCEPT ![i] = "Done"]
             /\ result' = [result EXCEPT ![i] = Thrown(r)]
             /\ calls' = [calls EXCEPT ![i] = Append(@, "list:err")]
             /\ UNCHANGED <<cursor, more, page, scan>>
        ELSE /\ pc' = [pc EXCEPT ![i] = nxt.pc]
             /\ scan' = [scan EXCEPT ![i] = nxt.scan]
             /\ result' = [result EXCEPT ![i] = nxt.result]
             /\ cursor' = [cursor EXCEPT ![i] = pg.NextToken]
             /\ more' = [more EXCEPT ![i] = pg.HasNextToken]
             /\ page' = [page EXCEPT ![i] = pg.Policies]
             /\ calls' = [calls EXCEPT ![i] = cs]
  /\ UNCHANGED <<attached, ev, retries, before>>
  /\ UNCHANGED cvars

\* Delete: throttlingBackOff(() => send(new DetachPolicyCommand)) for the
\* match at page[scan] (lines 93-100); the loops then go on.  The service
\* rejects the detachment of a policy that is not attached to the target.
DeleteDetach(i, r) ==
  /\ pc[i] = "Detach"
  /\ LET e == ev[i]
         w == throttlingBackOff(r)
         cs == Append(calls[i], "detach:ok")
         nxt == DeleteResume(e, page[i], scan[i], more[i], cs)
     IN IF w = "retry"
        THEN /\ retries[i] < MaxThrottle
             /\ retries' = [retries EXCEPT ![i] = @ + 1]
             /\ UNCHANGED <<attached, pc, scan, result, calls>>
        ELSE IF w # "ok"
        THEN /\ pc' = [pc EXCEPT ![i] = "Done"]
             /\ result' = [result EXCEPT ![i] = Thrown(w)]
             /\ calls' = [calls EXCEPT ![i] = Append(@, "detach:err")]
             /\ UNCHANGED <<attached, scan, retries>>
        ELSE IF ~Contains(attached[e.targetId], e.policyId)
        THEN /\ pc' = [pc EXCEPT ![i] = "Done"]
             /\ result' = [result EXCEPT ![i] = Thrown("PolicyNotAttached")]
             /\ calls' = [calls EXCEPT ![i] = Append(@, "detach:rejected")]
             /\ UNCHANGED <<attached, scan, retries>>
        ELSE /\ attached' = [attached EXCEPT ![e.targetId] = Remove(@, e.policyId)]
             /\ pc' = [pc EXCEPT ![i] = nxt.pc]
             /\ scan' = [scan EXCEPT ![i] = nxt.scan]
             /\ result' = [result EXCEPT ![i] = nxt.result]
             /\ calls' = [calls EXCEPT ![i] = cs]
             /\ UNCHANGED retries
  /\ UNCHANGED <<ev, cursor, more, page, before>>
  /\ UNCHANGED cvars

\* ===================================================== construct wrappers
\* uuids generated during one run.
MaxUuids == 3

Constructs == {"Policy", "MacieMembers"}

\* PolicyProps (the description is optional) and AwsMacieMembersProps.
PolicyPropsSet ==
  [path : {"policies/scp.json"}, name : {"DenyRoot", "Quarantine"},
   type : {"SERVICE_CONTROL_POLICY"}, tags : {<<>>}] \cup
  [path : {"policies/scp.json"}, name : {"DenyRoot"}, description : {"deny root"},
   type : {"SERVICE_CONTROL_POLICY"}, tags : {<<>>}]

AwsMacieMembersPropsSet ==
  [region : {"us-east-1", "eu-west-1"}, adminAccountId : {"111111111111"}]

PropsOf(c) == IF c = "Policy" THEN PolicyPropsSet ELSE AwsMacieMembersPropsSet

\* uuidv4(): the n-th uuid generated; no two generated uuids are equal.
uuidv4(n) == "uuid-" \o ToString(n)

\* The asset bundled from props.path.
s3BucketName == "cdk-assets-bucket"
s3ObjectKey(path) == "asset/" \o path

\* { ...a, ...b }: the keys of b replace those of a.
Spread(a, b) == [k \in DOMAIN a \cup DOMAIN b |-> IF k \in DOMAIN b THEN b[k] ELSE a[k]]

\* The properties Policy registers its custom resource with.
PolicyPropertiesNoUuid(props, uuid) ==
  Spread([bucket |-> s3BucketName, key |-> s3ObjectKey(props.path)], props)

PolicyProperties(props, uuid) ==
  Spread([bucket |-> s3BucketName, key |-> s3ObjectKey(props.path), uuid |-> uuid], props)

\* The properties MacieMembers registers its custom resource with.
MacieMembersProperties(props, uuid) ==
  [region |-> props.region, adminAccountId |-> props.adminAccountId, uuid |-> uuid]

ResourceProperties(c, props, uuid) ==
  IF c = "Policy" THEN PolicyProperties(props, uuid) ELSE MacieMembersProperties(props, uuid)

\* The deployment engine's decision for a custom resource: Create when the
\* resource is new, Update when its properties changed, and no invocation
\* of the handler otherwise.
RequestFor(old, new) ==
  IF old = {} THEN "Create" ELSE IF old # new THEN "Update" ELSE "NoChange"

ConstructInit ==
  /\ uuids = 0
  /\ synth = [c \in Constructs |-> {}]
  /\ deployed = [c \in Constructs |-> {}]
  /\ pending = [c \in Constructs |-> FALSE]
  /\ request = [c \in Constructs |-> "None"]
  /\ deploys = [c \in Constructs |-> 0]
  /\ built = <<>>

\* new Policy(scope, id, props) / new MacieMembers(scope, id, props) during
\* a synthesis.
Construct(c, props) ==
  /\ uuids < MaxUuids
  /\ LET uuid == uuidv4(uuids + 1)
         properties == ResourceProperties(c, props, uuid)
     IN /\ uuids' = uuids + 1
        /\ synth' = [synth EXCEPT ![c] = {properties}]
        /\ built' = Append(built, [construct |-> c, props |-> props, uuid |-> uuid,
                                   properties |-> properties])
  /\ pending' = [pending EXCEPT ![c] = TRUE]
  /\ UNCHANGED <<deployed, request, deploys>>
  /\ UNCHANGED hvars

\* The deployment of the synthesized template.
Deploy(c) ==
  /\ pending[c]
  /\ request' = [request EXCEPT ![c] = RequestFor(deployed[c], synth[c])]
  /\ deployed' = [deployed EXCEPT ![c] = synth[c]]
  /\ deploys' = [deploys EXCEPT ![c] = @ + 1]
  /\ pending' = [pending EXCEPT ![c] = FALSE]
  /\ UNCHANGED <<uuids, synth, built>>
  /\ UNCHANGED hvars

\* ========================================================= specifications
vars == <<hvars, cvars>>

\* No invocation is under way while the constructs are synthesized.
HandlerIdle ==
  /\ attached = [t \in Targets |-> <<>>]
  /\ ev = [i \in Invs |-> NoEvent]
  /\ pc = [i \in Invs |-> "Idle"]
  /\ cursor = [i \in Invs |-> 0]
  /\ more = [i \in Invs |-> FALSE]
  /\ page = [i \in Invs |-> <<>>]
  /\ scan = [i \in Invs |-> 0]
  /\ retries = [i \in Invs |-> 0]
  /\ result = [i \in Invs |-> NoResult]
  /\ calls = [i \in Invs |-> <<>>]
  /\ before = [i \in Invs |-> attached]

Init == HandlerInit /\ ConstructInit

Next ==
  \/ \E i \in Invs, e \in Events : Invoke(i, e)
  \/ \E i \in Invs, r \in Responses : CreateUpdateListPage(i, r)
  \/ \E i \in Invs, r \in Responses : CreateUpdateAttach(i, r)
  \/ \E i \in Invs : DeleteProtected(i)
  \/ \E i \in Invs, r \in Responses : DeleteListPage(i, r)
  \/ \E i \in Invs, r \in Responses : DeleteDetach(i, r)

\* The handler's invocations.
Spec == Init /\ [][Next]_vars

SynthInit == HandlerIdle /\ ConstructInit

SynthNext ==
  \/ \E c \in Constructs : \E props \in PropsOf(c) : Construct(c, props)
  \/ \E c \in Constructs : Deploy(c)

\* The syntheses and deployments of the construct wrappers.
SynthSpec == SynthInit /\ [][SynthNext]_vars

\* Two custom resources with different logical ids name the same policy and
\* target: the deployment engine invokes the handler for each with a Create
\* or an Update, without waiting for the other (lines 28-41).
InvokeConcurrent(i, e) ==
  /\ pc[i] = "Idle"
  /\ e.RequestType \in {"Create", "Update"}
  /\ \A j \in Invs : pc[j] # "Idle" => /\ ev[j].policyId = e.policyId
                                       /\ ev[j].targetId = e.targetId
                                       /\ ev[j].type = e.type
  /\ ev' = [ev EXCEPT ![i] = e]
  /\ pc' = [pc EXCEPT ![i] = "Pending"]
  /\ before' = [before EXCEPT ![i] = attached]
  /\ UNCHANGED <<attached, cursor, more, page, scan, retries, result, calls>>
  /\ UNCHANGED cvars

\* The steps of the two invocations interleave at their awaited calls.
ConcurrentNext ==
  \/ \E i \in Invs, e \in Events : InvokeConcurrent(i, e)
  \/ \E i \in Invs, r \in Responses : CreateUpdateListPage(i, r)
  \/ \E i \in Invs, r \in Responses : CreateUpdateAttach(i, r)

\* Concurrent Create/Update invocations for one policy and one target.
ConcurrentSpec == Init /\ [][ConcurrentNext]_vars

\* ================================================================ claims
CreateOrUpdate(i) == ev[i].RequestType \in {"Create", "Update"}

\* Invocation i has started and no later invocation has: attached is the
\* external state as i left it.
Latest(i) == pc[i] # "Idle" /\ \A j \in Invs : j > i => pc[j] = "Idle"

IsAttached(att, p, t) == \E k \in 1..Len(att[t]) : att[t][k] = p

TimesAttached(att, p, t) == Cardinality({k \in 1..Len(att[t]) : att[t][k] = p})

CallsOf(i, kinds) == {k \in 1..Len(calls[i]) : calls[i][k] \in kinds}

AttachCalls(i) == CallsOf(i, {"attach:ok", "attach:err", "attach:rejected"})

DetachCalls(i) == CallsOf(i, {"detach:ok", "detach:err", "detach:rejected"})

ListCalls(i) == CallsOf(i, {"list:hit", "list:miss", "list:err"})

\* Calls the service or the client answered with an error that left the
\* handler no choice: the invocation ran without one when this is empty.
Faults(i) == CallsOf(i, {"list:err", "attach:err", "detach:err"})

\* The pages of the listing of the event's target and type, as the
\* invocation found it.
ListedBefore(i) == FilteredPolicies(before[i], ev[i].targetId, ev[i].type)

Listed(i) == \E k \in 1..Len(ListedBefore(i)) : ListedBefore(i)[k] = ev[i].policyId

PagesOf(n) == IF n = 0 THEN 1 ELSE (n + PageSize - 1) \div PageSize

\* C1: two successive Create or Update invocations with the same policyId,
\* targetId and type, none of whose calls failed, both return SUCCESS, issue
\* one AttachPolicy call in total when the policy was not attached before
\* (none when it was), and leave the policy attached exactly once.
C1_Idempotent ==
  \A i, j \in Invs :
    (/\ i < j /\ pc[i] = "Done" /\ pc[j] = "Done" /\ Latest(j)
     /\ CreateOrUpdate(i) /\ CreateOrUpdate(j)
     /\ ev[i].policyId = ev[j].policyId /\ ev[i].targetId = ev[j].targetId
     /\ ev[i].type = ev[j].type
     /\ Faults(i) = {} /\ Faults(j) = {})
    => /\ result[i].Status = "SUCCESS"
       /\ result[j].Status = "SUCCESS"
       /\ Cardinality(AttachCalls(i)) + Cardinality(AttachCalls(j)) =
            (IF IsAttached(before[i], ev[i].policyId, ev[i].targetId) THEN 0 ELSE 1)
       /\ TimesAttached(attached, ev[i].policyId, ev[i].targetId) = 1

C1_Witness ==
  /\ pc[1] = "Done" /\ pc[2] = "Done"
  /\ CreateOrUpdate(1) /\ CreateOrUpdate(2)
  /\ ~IsAttached(before[1], ev[1].policyId, ev[1].targetId)
  /\ result[1].outcome = "MutateSuccess"
  /\ result[2].outcome = "NoOpSuccess"
  /\ calls[2] # <<>>

\* C2: a Delete of p-FullAWSAccess issues no call at all (no list, no
\* detach), changes no attachment and returns SUCCESS with the event's
\* PhysicalResourceId.
C2_ProtectedPolicy ==
  \A i \in Invs :
    (ev[i].RequestType = "Delete" /\ ev[i].policyId = "p-FullAWSAccess")
    => /\ calls[i] = <<>>
       /\ Latest(i) => attached = before[i]
       /\ pc[i] = "Done" =>
            /\ result[i].Status = "SUCCESS"
            /\ result[i].PhysicalResourceId = ev[i].PhysicalResourceId

C2_Witness ==
  \E i \in Invs :
    /\ ev[i].RequestType = "Delete" /\ ev[i].policyId = "p-FullAWSAccess"
    /\ pc[i] = "Done"
    /\ IsAttached(attached, "p-FullAWSAccess", ev[i].targetId)
    /\ ev[i].PhysicalResourceId = LegacyPhysicalId

\* C3: a Create or Update that finds policyId on no page of the listing
\* issues its one AttachPolicy call after all the pages were read, and not
\* before; when no call fails it returns SUCCESS with the physical id
\* policyId_targetId, and the policy is then attached exactly once.
C3_AttachWhenAbsent ==
  \A i \in Invs :
    (CreateOrUpdate(i) /\ ~Listed(i))
    => /\ Cardinality(AttachCalls(i)) <= 1
       /\ \A k \in AttachCalls(i) :
            /\ k = Len(calls[i])
            /\ k = PagesOf(Len(ListedBefore(i))) + 1
            /\ \A h \in 1..(k - 1) : calls[i][h] = "list:miss"
       /\ (pc[i] = "Done" /\ Faults(i) = {}) =>
            /\ Cardinality(AttachCalls(i)) = 1
            /\ result[i].Status = "SUCCESS"
            /\ result[i].PhysicalResourceId = ev[i].policyId \o "_" \o ev[i].targetId
            /\ Latest(i) => TimesAttached(attached, ev[i].policyId, ev[i].targetId) = 1

C3_Witness ==
  \E i \in Invs :
    /\ CreateOrUpdate(i) /\ pc[i] = "Done"
    /\ ev[i].policyId = "p-1234" /\ ev[i].targetId = "ou-5678"
    /\ Len(ListedBefore(i)) > PageSize
    /\ calls[i][Len(calls[i])] = "attach:ok"
    /\ result[i].PhysicalResourceId = "p-1234_ou-5678"

\* C4: a Create or Update whose policy is attached to the target already
\* issues no AttachPolicy call and leaves the attachments as they were; when
\* no call fails it returns SUCCESS with the physical id policyId_targetId,
\* the result of the not-attached case.
C4_NoOpWhenAttached ==
  \A i \in Invs :
    (CreateOrUpdate(i) /\ IsAttached(before[i], ev[i].policyId, ev[i].targetId))
    => /\ AttachCalls(i) = {}
       /\ Latest(i) => attached = before[i]
       /\ (pc[i] = "Done" /\ Faults(i) = {}) =>
            /\ result[i].Status = "SUCCESS"
            /\ result[i].PhysicalResourceId = ev[i].policyId \o "_" \o ev[i].targetId
            /\ calls[i][Len(calls[i])] = "list:hit"

C4_Witness ==
  \E i \in Invs :
    /\ CreateOrUpdate(i) /\ pc[i] = "Done"
    /\ ev[i].policyId = "p-1234" /\ ev[i].targetId = "ou-5678"
    /\ IsAttached(before[i], "p-1234", "ou-5678")
    /\ Len(calls[i]) > 1
    /\ result[i].Status = "SUCCESS"
    /\ result[i].PhysicalResourceId = "p-1234_ou-5678"

\* C5, as claimed: in every listing (Create, Update and Delete), once a page
\* that contains policyId was read the invocation issues no AttachPolicy or
\* DetachPolicy call.
C5_MatchStopsMutation ==
  \A i \in Invs :
    \A h \in CallsOf(i, {"list:hit"}) :
      \A k \in AttachCalls(i) \cup DetachCalls(i) : k < h

\* C5, amended: in the listing of Create and Update, once a page that
\* contains policyId was read the invocation issues no further call and
\* ends in SUCCESS without a mutation; in the listing of Delete a page that
\* contains policyId is what leads to the DetachPolicy call: each such call
\* directly follows the read of a page with a match.
C5_MatchStopsAttach ==
  \A i \in Invs :
    /\ CreateOrUpdate(i) =>
         \A h \in CallsOf(i, {"list:hit"}) :
           /\ h = Len(calls[i])
           /\ AttachCalls(i) = {}
           /\ pc[i] = "Done"
           /\ result[i].outcome = "NoOpSuccess"
           /\ Latest(i) => attached = before[i]
    /\ ev[i].RequestType = "Delete" =>
         /\ \A k \in DetachCalls(i) : k > 1 /\ calls[i][k - 1] = "list:hit"
         /\ \A h \in CallsOf(i, {"list:hit"}) :
              h < Len(calls[i]) => (h + 1) \in DetachCalls(i)

C5_Witness ==
  \E i, j \in Invs :
    /\ CreateOrUpdate(i) /\ pc[i] = "Done"
    /\ calls[i] = <<"list:miss", "list:hit">>
    /\ ev[j].RequestType = "Delete" /\ pc[j] = "Done"
    /\ calls[j] = <<"list:miss", "list:hit", "detach:ok">>

\* C6: a Delete of a policy other than p-FullAWSAccess that returns SUCCESS
\* leaves the policy not attached to the target and returns the event's
\* PhysicalResourceId; it issues a DetachPolicy call only when the listing
\* contained the policy, and when the policy is not attached it issues none
\* and still succeeds.
C6_DeleteDetaches ==
  \A i \in Invs :
    (ev[i].RequestType = "Delete" /\ ev[i].policyId # "p-FullAWSAccess")
    => /\ DetachCalls(i) # {} => Listed(i)
       /\ Cardinality(DetachCalls(i)) <= 1
       /\ (pc[i] = "Done" /\ result[i].Status = "SUCCESS") =>
            /\ Latest(i) => ~IsAttached(attached, ev[i].policyId, ev[i].targetId)
            /\ result[i].PhysicalResourceId = ev[i].PhysicalResourceId
            /\ Cardinality(DetachCalls(i)) =
                 (IF IsAttached(before[i], ev[i].policyId, ev[i].targetId) THEN 1 ELSE 0)
       /\ (pc[i] = "Done" /\ Faults(i) = {}) => result[i].Status = "SUCCESS"

C6_Witness ==
  \E i, j \in Invs :
    /\ i < j
    /\ ev[i].RequestType = "Delete" /\ ev[j].RequestType = "Delete"
    /\ ev[i].policyId = "p-1234" /\ pc[i] = "Done" /\ pc[j] = "Done"
    /\ IsAttached(before[i], "p-1234", ev[i].targetId)
    /\ result[i].outcome = "MutateSuccess"
    /\ result[j].outcome = "NoOpSuccess"
    /\ ev[j].PhysicalResourceId = LegacyPhysicalId

\* C7, as claimed: an invocation that ends with a propagated error has
\* applied no attach and no detach: the attachments are what they were when
\* it started.
C7_NoPartialFailure ==
  \A i \in Invs :
    (pc[i] = "Done" /\ result[i].outcome = "Fail" /\ Latest(i))
    => /\ attached = before[i]
       /\ Applied(calls[i]) = 0

\* C8, as claimed: a rate-limit error on a call of an invocation never by
\* itself makes the invocation fail.
C8_ThrottlingRetried ==
  \A i \in Invs : pc[i] = "Done" => result[i].error # "Throttling"

\* C10, as claimed: an invocation ends in exactly one of NoOpSuccess,
\* MutateSuccess and Fail, has read at least one page of the listing before
\* it ends, and requests no page after a mutation call.
C10_StateMachine ==
  \A i \in Invs :
    /\ pc[i] = "Done" =>
         /\ result[i].outcome \in {"NoOpSuccess", "MutateSuccess", "Fail"}
         /\ ListCalls(i) # {}
    /\ \A m \in AttachCalls(i) \cup DetachCalls(i) : \A l \in ListCalls(i) : l < m

\* C9: every construction of Policy and of MacieMembers puts the uuid it
\* generated into the properties of its custom resource (in Policy the
\* caller's props, spread over it, leave it in place), so the properties of
\* two constructions differ even for identical props, and every deployment
\* after the first sends the handler an Update.
C9_FreshUuid ==
  /\ \A k \in 1..Len(built) :
       /\ "uuid" \in DOMAIN built[k].properties
       /\ built[k].properties["uuid"] = built[k].uuid
       /\ \A j \in 1..(k - 1) :
            built[j].construct = built[k].construct =>
              /\ built[j].properties["uuid"] # built[k].properties["uuid"]
              /\ built[j].properties # built[k].properties
  /\ \A c \in Constructs :
       request[c] = (IF deploys[c] = 0 THEN "None"
                     ELSE IF deploys[c] = 1 THEN "Create" ELSE "Update")

C9_Witness ==
  /\ Len(built) >= 3
  /\ built[1].construct = "Policy" /\ built[2].construct = "Policy"
  /\ built[1].props = built[2].props
  /\ built[3].construct = "MacieMembers"
  /\ deploys["Policy"] = 2 /\ request["Policy"] = "Update"
  /\ deploys["MacieMembers"] = 1

\* C11, as claimed: when two Create or Update invocations for the same
\* policyId, targetId and type interleave and none of their calls fails for
\* a reason of its own, both return SUCCESS and the policy is attached to
\* the target exactly once: an attachment that exists already is never
\* surfaced as a failure.
C11_ConcurrentConsistent ==
  \A i, j \in Invs :
    (/\ i # j /\ pc[i] = "Done" /\ pc[j] = "Done"
     /\ CreateOrUpdate(i) /\ CreateOrUpdate(j)
     /\ ev[i].policyId = ev[j].policyId /\ ev[i].targetId = ev[j].targetId
     /\ ev[i].type = ev[j].type
     /\ Faults(i) = {} /\ Faults(j) = {})
    => /\ result[i].Status = "SUCCESS"
       /\ result[j].Status = "SUCCESS"
       /\ result[i].error # "DuplicatePolicyAttachment"
       /\ TimesAttached(attached, ev[i].policyId, ev[i].targetId) = 1
====
